---- MODULE Spec2Model ----
(***************************************************************************)
(* Weekly prediction contest engine (backend/prediction_processor.py) and  *)
(* prediction submission (backend/predictions.py).                         *)
(*                                                                         *)
(* The relational tables are the committed state; the batch job is one     *)
(* process whose position is pc and whose open transaction is tx.          *)
(***************************************************************************)
EXTENDS Integers, Sequences, FiniteSets, TLC

\* ------------------------------------------------------------------ bounds
MaxContests == 2
MaxPreds == 2
MaxFaults == 1
MaxCurrentSongs == 2
MaxPreviousSongs == 1
MaxInFlight == 2
MaxTopUsers == 11
MaxDay == 8
MaxRetries == 3
MaxFavouriteId == 3
MaxRequests == 2
MaxClock == 2

\* ------------------------------------------------------- program constants
Tuesday == 1
PredictionCap == 10
DaysPerWeek == 7
Top10Limit == 10
Top50Limit == 50
Top10Points == 15
Top50Points == 10
OtherEntryPoints == 5
ExitPoints == 10
TopLimit == 10
RESET_TOKEN_EXPIRY == 1
MinPasswordLength == 8

Users == {1, 2}
ChartIds == {"hot-100", "billboard-200"}
PredictionTypes == {"entry", "exit", "position_change"}

\* SQL NULL / Python None for an id (ids start at 1)
None == 0
\* a nullable integer column: <<>> is NULL, <<v>> is the value v
Null == <<>>
Some(v) == <<v>>

\* ------------------------------------------------------------ str.lower()
\* The letters of the names used below, each mapped to its lower-case form.
Lower(s) ==
    CASE s = "Alpha" -> "alpha"
      [] s = "ALPHA" -> "alpha"
      [] s = "Beta" -> "beta"
      [] s = "BETA" -> "beta"
      [] s = "Gamma" -> "gamma"
      [] s = "Song X" -> "song x"
      [] s = "SONG X" -> "song x"
      [] s = "Song Z" -> "song z"
      [] s = "Artist Y" -> "artist y"
      [] s = "ARTIST Y" -> "artist y"
      [] s = "Artist W" -> "artist w"
      [] s = "X" -> "x"
      [] s = "Y" -> "y"
      [] s = "Z" -> "z"
      [] OTHER -> s

\* ------------------------------------------------------ Prediction Evaluator
Song(n, a, p) == [name |-> n, artist |-> a, position |-> p]
Chart(songs) == [data |-> [songs |-> songs]]

\* chart.get("data", {}).get("songs", [])
SongsOf(chart) ==
    IF "data" \in DOMAIN chart /\ "songs" \in DOMAIN chart.data
    THEN chart.data.songs ELSE <<>>

\* matching that compares the strings as they are
SongMatchesExact(s, song_name, artist) ==
    s.name = song_name /\ s.artist = artist

\* s["name"].lower() == song_name.lower() and s["artist"].lower() == artist.lower()
SongMatches(s, song_name, artist) ==
    Lower(s.name) = Lower(song_name) /\ Lower(s.artist) = Lower(artist)

\* for song in songs: if match: found = song; break   (0 when none matches)
FirstMatch(songs, song_name, artist) ==
    LET I == {i \in 1..Len(songs) : SongMatches(songs[i], song_name, artist)}
    IN IF I = {} THEN 0 ELSE CHOOSE i \in I : \A j \in I : i <= j

\* any(match for s in songs)
AnyMatch(songs, song_name, artist) ==
    \E i \in 1..Len(songs) : SongMatches(songs[i], song_name, artist)

\* the top-10 tier left out
calculate_entry_points_flat(actual_position) ==
    IF actual_position <= Top50Limit THEN Top50Points ELSE OtherEntryPoints

\* the thresholds taken as strict
calculate_entry_points_strict(actual_position) ==
    IF actual_position < Top10Limit THEN Top10Points
    ELSE IF actual_position < Top50Limit THEN Top50Points
    ELSE OtherEntryPoints

calculate_entry_points(actual_position) ==
    IF actual_position <= Top10Limit THEN Top10Points
    ELSE IF actual_position <= Top50Limit THEN Top50Points
    ELSE OtherEntryPoints

Abs(x) == IF x < 0 THEN -x ELSE x

\* the breakpoints taken as strict
calculate_position_points_strict(predicted_change, actual_change) ==
    LET difference == Abs(predicted_change - actual_change)
    IN IF difference = 0 THEN 10
       ELSE IF difference < 5 THEN 5
       ELSE IF difference < 10 THEN 2
       ELSE 0

calculate_position_points(predicted_change, actual_change) ==
    LET difference == Abs(predicted_change - actual_change)
    IN IF difference = 0 THEN 10
       ELSE IF difference <= 5 THEN 5
       ELSE IF difference <= 10 THEN 2
       ELSE 0

\* exit points with one point for a wrong prediction
calculate_exit_points_consolation(is_correct) == IF is_correct THEN ExitPoints ELSE 1

calculate_exit_points(is_correct) == IF is_correct THEN ExitPoints ELSE 0

\* an entry evaluation that wants the predicted position met
evaluate_entry_prediction_exact(prediction, current_chart, previous_chart) ==
    LET current_songs == SongsOf(current_chart)
        previous_songs == SongsOf(previous_chart)
        in_previous == AnyMatch(previous_songs, prediction.song_name, prediction.artist)
        k == FirstMatch(current_songs, prediction.song_name, prediction.artist)
    IN IF in_previous \/ k = 0
       THEN [is_correct |-> FALSE, points |-> 0, actual_position |-> Null]
       ELSE IF prediction.predicted_position # Some(current_songs[k].position)
       THEN [is_correct |-> FALSE, points |-> 0,
             actual_position |-> Some(current_songs[k].position)]
       ELSE [is_correct |-> TRUE,
             points |-> calculate_entry_points(current_songs[k].position),
             actual_position |-> Some(current_songs[k].position)]

evaluate_entry_prediction(prediction, current_chart, previous_chart) ==
    LET current_songs == SongsOf(current_chart)
        previous_songs == SongsOf(previous_chart)
        in_previous == AnyMatch(previous_songs, prediction.song_name, prediction.artist)
        k == FirstMatch(current_songs, prediction.song_name, prediction.artist)
    IN IF in_previous
       THEN [is_correct |-> FALSE, points |-> 0, actual_position |-> Null]
       ELSE IF k = 0
       THEN [is_correct |-> FALSE, points |-> 0, actual_position |-> Null]
       ELSE [is_correct |-> TRUE,
             points |-> calculate_entry_points(current_songs[k].position),
             actual_position |-> Some(current_songs[k].position)]

evaluate_position_prediction(prediction, current_chart, previous_chart) ==
    LET current_songs == SongsOf(current_chart)
        previous_songs == SongsOf(previous_chart)
        kp == FirstMatch(previous_songs, prediction.song_name, prediction.artist)
        kc == FirstMatch(current_songs, prediction.song_name, prediction.artist)
    IN IF kp = 0 \/ kc = 0
       THEN [is_correct |-> FALSE, points |-> 0, actual_change |-> Null]
       ELSE LET actual_change == previous_songs[kp].position - current_songs[kc].position
                points == calculate_position_points(prediction.predicted_change[1],
                                                    actual_change)
            IN [is_correct |-> (points > 0), points |-> points,
                actual_change |-> Some(actual_change)]

\* an exit evaluation that does not look at the previous snapshot
evaluate_exit_prediction_any(prediction, current_chart, previous_chart) ==
    LET current_songs == SongsOf(current_chart)
        in_current == AnyMatch(current_songs, prediction.song_name, prediction.artist)
    IN [is_correct |-> ~in_current, points |-> calculate_exit_points(~in_current)]

evaluate_exit_prediction(prediction, current_chart, previous_chart) ==
    LET current_songs == SongsOf(current_chart)
        previous_songs == SongsOf(previous_chart)
        in_previous == AnyMatch(previous_songs, prediction.song_name, prediction.artist)
        in_current == AnyMatch(current_songs, prediction.song_name, prediction.artist)
    IN IF ~in_previous
       THEN [is_correct |-> FALSE, points |-> 0]
       ELSE [is_correct |-> ~in_current, points |-> calculate_exit_points(~in_current)]

\* the if/elif chain of process_predictions; <<>> for an unknown type (continue)
EvaluatePrediction(prediction, current_chart, previous_chart) ==
    CASE prediction.prediction_type = "entry" ->
           <<evaluate_entry_prediction(prediction, current_chart, previous_chart)>>
      [] prediction.prediction_type = "position_change" ->
           <<evaluate_position_prediction(prediction, current_chart, previous_chart)>>
      [] prediction.prediction_type = "exit" ->
           <<evaluate_exit_prediction(prediction, current_chart, previous_chart)>>
      [] OTHER -> <<>>

\* result.get("actual_position"), result.get("actual_change")
GetField(result, f) == IF f \in DOMAIN result THEN result[f] ELSE Null


\* ------------------------------------------------------ Chart Source (upstream)
\* What the ranking provider publishes for a chart and a week.  Two alternating
\* weekly rankings per chart; names drift in letter case between weeks.
HotA == Chart(<<Song("Alpha", "X", 20), Song("Beta", "Y", 3)>>)
HotB == Chart(<<Song("ALPHA", "x", 15), Song("Gamma", "Z", 30)>>)
BbA == Chart(<<Song("Beta", "Y", 5)>>)
BbB == Chart(<<Song("Beta", "Y", 5), Song("Gamma", "Z", 8)>>)

Upstream(chart_id, week) ==
    LET odd == ((week + DaysPerWeek - 1) \div DaysPerWeek) % 2 = 1
    IN IF chart_id = "hot-100" THEN (IF odd THEN HotA ELSE HotB)
       ELSE (IF odd THEN BbA ELSE BbB)

\* the requests the model submits: (authenticated user, request body without contest_id)
Requests ==
    { <<1, [chart_type |-> "hot-100", prediction_type |-> "entry",
            target_name |-> "Gamma", artist |-> "Z", position |-> 5]>>,
      <<1, [chart_type |-> "billboard-200", prediction_type |-> "exit",
            target_name |-> "Beta", artist |-> "Y", position |-> 0]>>,
      <<2, [chart_type |-> "billboard-200", prediction_type |-> "entry",
            target_name |-> "gamma", artist |-> "z", position |-> 5]>> }

\* ------------------------------------------------------------------- state
VARIABLES
    today,                \* datetime.now().date(), as a day number; weekday = today % 7.
                          \* Every operation of a behaviour runs on this one day, so
                          \* start_date never tells two open contests apart.
    weekly_contests,      \* table weekly_contests, row i has id i
    predictions,          \* table predictions, row i has id i
    prediction_results,   \* table prediction_results, in insertion order
    users,                \* the statistics columns of table users
    charts,               \* table charts (the snapshot cache), UNIQUE (title, week)
    pc,                   \* where the batch job is
    entry,                \* which function the job was started with
    contest_id,           \* run_weekly_processor / process_predictions: contest_id
    success,              \* run_weekly_processor: success
    new_contest_id,       \* run_weekly_processor: new_contest_id
    retval,               \* what the entry function returned
    fetched,              \* process_predictions: the four fetched charts
    todo,                 \* process_predictions: rows of `predictions` not yet looped over
    tx,                   \* process_predictions: rows inserted on conn, not yet committed
    faults,               \* storage / upstream failures and interruptions so far
    credits,              \* history: per prediction, committed update_user_stats calls
    obs,                  \* history: what the running job saw when it started
    quiet,                \* history: the last job was a weekly cycle, it returned True,
                          \* and nothing was submitted since it returned
    ev,                   \* evaluator harness: inputs and result of one evaluation
    inflight,             \* submit_prediction calls past their checks, before the INSERT
    response              \* submit_prediction: the last response (status 0: none yet)

dbvars == <<weekly_contests, predictions, prediction_results, users, charts>>
jobvars == <<pc, entry, contest_id, success, new_contest_id, retval, fetched, todo, tx>>
histvars == <<credits, obs, quiet>>
webvars == <<inflight, response>>
vars == <<today, dbvars, jobvars, faults, histvars, ev, webvars>>

NoObs ==
    [open_before |-> {}, len_before |-> 0, results_before |-> <<>>,
     processed_before |-> {}, users_before |-> <<>>, failure |-> "none",
     second |-> FALSE]   \* second: started while quiet, nothing submitted since

ZeroStats ==
    [total_points |-> 0, weekly_points |-> 0, predictions_made |-> 0,
     correct_predictions |-> 0]

NoResponse == [status |-> 0, error |-> ""]

InitSystem ==
    /\ today = Tuesday
    /\ weekly_contests = <<>>
    /\ predictions = <<>>
    /\ prediction_results = <<>>
    /\ users = [u \in Users |-> ZeroStats]
    /\ charts = {}
    /\ pc = "idle"
    /\ entry = "none"
    /\ contest_id = None
    /\ success = "unset"
    /\ new_contest_id = None
    /\ retval = "unset"
    /\ fetched = <<>>
    /\ todo = {}
    /\ tx = <<>>
    /\ faults = 0
    /\ credits = <<>>
    /\ obs = NoObs
    /\ quiet = FALSE
    /\ inflight = <<>>
    /\ response = NoResponse

Init == InitSystem /\ ev = <<>>

\* ------------------------------------------------------------ table queries
ContestIds == 1..Len(weekly_contests)
PredictionIds == 1..Len(predictions)
OpenContests == {c \in ContestIds : weekly_contests[c].status = "open"}

\* WHERE status = 'open' ORDER BY start_date DESC LIMIT 1: any open row with the
\* latest start_date (rows with equal start_date come in no defined order)
MostRecentOpen ==
    {c \in OpenContests :
        \A d \in OpenContests : weekly_contests[d].start_date <= weekly_contests[c].start_date}

\* the SELECT without its processed = FALSE condition
AllPredictionsOf(c) ==
    {p \in PredictionIds : predictions[p].contest_id = c}

\* SELECT ... FROM predictions WHERE contest_id = %s AND processed = FALSE
Unprocessed(c) ==
    {p \in PredictionIds : predictions[p].contest_id = c /\ ~predictions[p].processed}

\* SELECT COUNT(*) FROM predictions WHERE user_id = %s AND contest_id = %s
PredictionCount(u, c) ==
    Cardinality({p \in PredictionIds :
                    predictions[p].user_id = u /\ predictions[p].contest_id = c})

ResultsOf(p) == SelectSeq(prediction_results, LAMBDA r : r.prediction_id = p)


\* --------------------------------------------------------------- environment
\* POST /api/predictions.  Requests the handler rejects store nothing and are
\* not listed; the guard is the conjunction of the handler's checks.
SubmitPrediction(user_id, data) ==
    /\ Len(predictions) < MaxPreds
    /\ data.contest_id \in ContestIds
    /\ weekly_contests[data.contest_id].status = "open"
    /\ ~(today >= weekly_contests[data.contest_id].end_date)
    /\ ~(PredictionCount(user_id, data.contest_id) >= PredictionCap)
    /\ data.chart_type \in ChartIds
    /\ data.prediction_type \in PredictionTypes
    /\ predictions' = Append(predictions,
          [user_id |-> user_id,
           contest_id |-> data.contest_id,
           chart_id |-> data.chart_type,
           prediction_type |-> data.prediction_type,
           song_name |-> data.target_name,
           artist |-> data.artist,
           predicted_position |->
               IF data.prediction_type = "entry" THEN Some(data.position) ELSE Null,
           predicted_change |->
               IF data.prediction_type = "position_change" THEN Some(data.position) ELSE Null,
           processed |-> FALSE])
    /\ credits' = Append(credits, 0)
    /\ quiet' = FALSE
    /\ obs' = [obs EXCEPT !.second = FALSE]
    /\ UNCHANGED <<today, weekly_contests, prediction_results, users, charts,
                   jobvars, faults, ev, webvars>>

Submit ==
    \E r \in Requests, c \in ContestIds :
        SubmitPrediction(r[1],
            [contest_id |-> c, chart_type |-> r[2].chart_type,
             prediction_type |-> r[2].prediction_type, target_name |-> r[2].target_name,
             artist |-> r[2].artist, position |-> r[2].position])

\* ----------------------------------------------------------------- batch job
\* a storage or upstream call raises
Fault == faults < MaxFaults /\ faults' = faults + 1
NoFault == faults' = faults

\* ------------------------------------------- submit_prediction, step by step
\* str.rstrip('/') on the chart types used below
RStrip(s) ==
    CASE s = "hot-100/" -> "hot-100"
      [] s = "billboard-200/" -> "billboard-200"
      [] OTHER -> s

RequiredFields == {"contest_id", "chart_type", "prediction_type", "target_name", "position"}

Reply(status, error) == [status |-> status, error |-> error]

\* the checks without the one on prediction_type
SubmitChecksNoType(user_id, data) ==
    IF ~(RequiredFields \subseteq DOMAIN data)
    THEN Reply(400, "Missing required fields")
    ELSE IF data.contest_id \notin ContestIds
    THEN Reply(404, "Contest not found")
    ELSE IF weekly_contests[data.contest_id].status # "open"
    THEN Reply(400, "Contest is no longer open for predictions")
    ELSE IF today >= weekly_contests[data.contest_id].end_date
    THEN Reply(400, "Contest has ended")
    ELSE IF PredictionCount(user_id, data.contest_id) >= PredictionCap
    THEN Reply(400, "Maximum prediction limit reached")
    ELSE IF RStrip(data.chart_type) \notin ChartIds
    THEN Reply(400, "Invalid chart type")
    ELSE Reply(201, "")

\* submit_prediction lines 87-145: the checks in the handler's order; status 201
\* stands for "goes on to the INSERT"
SubmitChecks(user_id, data) ==
    IF ~(RequiredFields \subseteq DOMAIN data)
    THEN Reply(400, "Missing required fields")
    ELSE IF data.contest_id \notin ContestIds
    THEN Reply(404, "Contest not found")
    ELSE IF weekly_contests[data.contest_id].status # "open"
    THEN Reply(400, "Contest is no longer open for predictions")
    ELSE IF today >= weekly_contests[data.contest_id].end_date
    THEN Reply(400, "Contest has ended")
    ELSE IF PredictionCount(user_id, data.contest_id) >= PredictionCap
    THEN Reply(400, "Maximum prediction limit reached")
    ELSE IF RStrip(data.chart_type) \notin ChartIds
    THEN Reply(400, "Invalid chart type")
    ELSE IF data.prediction_type \notin PredictionTypes
    THEN Reply(400, "Invalid prediction type")
    ELSE Reply(201, "")

\* a check fails: the handler returns at once, nothing is written
SubmitReject(user_id, data) ==
    /\ SubmitChecks(user_id, data).status # 201
    /\ response' = SubmitChecks(user_id, data)
    /\ UNCHANGED <<today, dbvars, jobvars, faults, histvars, ev, inflight>>

\* all checks pass: the request stands before its INSERT (lines 148-170)
SubmitCheck(user_id, data) ==
    /\ Len(inflight) < MaxInFlight
    /\ SubmitChecks(user_id, data).status = 201
    /\ inflight' = Append(inflight, [user_id |-> user_id, data |-> data])
    /\ UNCHANGED <<today, dbvars, jobvars, faults, histvars, ev, response>>

\* the row of the INSERT of lines 148-170
PredictionRow(user_id, data) ==
    [user_id |-> user_id,
     contest_id |-> data.contest_id,
     chart_id |-> RStrip(data.chart_type),
     prediction_type |-> data.prediction_type,
     song_name |-> data.target_name,
     artist |-> IF "artist" \in DOMAIN data THEN data.artist ELSE "",
     predicted_position |->
         IF data.prediction_type = "entry" THEN Some(data.position) ELSE Null,
     predicted_change |->
         IF data.prediction_type = "position_change" THEN Some(data.position) ELSE Null,
     processed |-> FALSE]

RemoveAt(seq, i) == SubSeq(seq, 1, i - 1) \o SubSeq(seq, i + 1, Len(seq))

\* the INSERT and conn.commit() of a request past its checks (lines 148-178), or
\* the INSERT raising: rollback, 500
SubmitStore ==
    /\ \E i \in 1..Len(inflight) :
          /\ inflight' = RemoveAt(inflight, i)
          /\ \/ /\ predictions' = Append(predictions,
                                          PredictionRow(inflight[i].user_id, inflight[i].data))
                /\ credits' = Append(credits, 0)
                /\ quiet' = FALSE
                /\ obs' = [obs EXCEPT !.second = FALSE]
                /\ response' = Reply(201, "Prediction submitted successfully")
                /\ NoFault
             \/ /\ Fault
                /\ response' = Reply(500, "Failed to submit prediction")
                /\ UNCHANGED <<predictions, credits, quiet, obs>>
    /\ UNCHANGED <<today, weekly_contests, prediction_results, users, charts,
                   jobvars, ev>>

Snapshot ==
    [obs EXCEPT !.open_before = OpenContests,
                !.len_before = Len(weekly_contests),
                !.results_before = prediction_results,
                !.processed_before = {p \in PredictionIds : predictions[p].processed},
                !.users_before = users]

\* the scheduler starts run_weekly_processor()
StartCycle ==
    /\ pc = "idle"
    /\ pc' = "close"
    /\ entry' = "cycle"
    /\ obs' = [Snapshot EXCEPT !.second = quiet]
    /\ UNCHANGED <<today, dbvars, contest_id, success, new_contest_id, retval,
                   fetched, todo, tx, faults, credits, quiet, ev, webvars>>

\* an operator re-runs process_predictions(c) on a closed contest
StartProcess ==
    /\ pc = "idle"
    /\ \E c \in ContestIds :
          /\ weekly_contests[c].status = "closed"
          /\ contest_id' = c
    /\ pc' = "fetch"
    /\ entry' = "process"
    /\ obs' = Snapshot
    /\ quiet' = FALSE
    /\ UNCHANGED <<today, dbvars, success, new_contest_id, retval,
                   fetched, todo, tx, faults, credits, ev, webvars>>

\* a run that stops when there was no contest to close
CloseReturnAbort(id) ==
    /\ contest_id' = id
    /\ pc' = IF id = None THEN "done" ELSE "fetch"

\* run_weekly_processor after close_active_contest() returned id (None: nothing closed)
CloseReturn(id) ==
    /\ contest_id' = id
    /\ pc' = IF id = None THEN "create" ELSE "fetch"

close_active_contest ==
    /\ pc = "close"
    /\ \/ \* no open contest: return None
          /\ OpenContests = {}
          /\ CloseReturn(None)
          /\ NoFault
          /\ UNCHANGED weekly_contests
       \/ \* the SELECT or the UPDATE raises: logged, rolled back, return None
          /\ OpenContests # {}
          /\ CloseReturn(None)
          /\ Fault
          /\ UNCHANGED weekly_contests
       \/ \E c \in MostRecentOpen :
          /\ weekly_contests' = [weekly_contests EXCEPT ![c].status = "closed"]
          /\ CloseReturn(c)
          /\ NoFault
    /\ UNCHANGED <<today, predictions, prediction_results, users, charts, entry,
                   success, new_contest_id, retval, fetched, todo, tx, histvars, ev, webvars>>

\* a run_weekly_processor that does not look at what process_predictions returned
ProcessReturnUnchecked(ok) ==
    /\ success' = IF ok THEN "True" ELSE "False"
    /\ IF entry = "cycle"
       THEN pc' = "create" /\ retval' = retval
       ELSE pc' = "done" /\ retval' = IF ok THEN "True" ELSE "False"

\* process_predictions returned ok; run_weekly_processor lines 759-764
ProcessReturn(ok) ==
    /\ success' = IF ok THEN "True" ELSE "False"
    /\ IF entry = "cycle" /\ ok
       THEN pc' = "create" /\ retval' = retval
       ELSE pc' = "done" /\ retval' = IF ok THEN "True" ELSE "False"

\* the four fetch_chart_data calls of process_predictions, in order
FetchPlan(c) ==
    LET release_date == weekly_contests[c].chart_release_date
        previous_date == release_date - DaysPerWeek
    IN << [title |-> "hot-100", week |-> release_date],
          [title |-> "hot-100", week |-> previous_date],
          [title |-> "billboard-200", week |-> release_date],
          [title |-> "billboard-200", week |-> previous_date] >>

\* SELECT data FROM charts WHERE title = %s AND week = %s
CachedData(table, key) ==
    (CHOOSE r \in table : r.title = key.title /\ r.week = key.week).data

\* fetch_chart_data always asking the provider and storing its answer
fetch_chart_data_uncached(key, table, api_data) ==
    [data |-> api_data,
     called |-> TRUE,
     table |-> {r \in table : ~(r.title = key.title /\ r.week = key.week)}
               \cup {[title |-> key.title, week |-> key.week, data |-> api_data]}]

\* fetch_chart_data(chart_id, date) when it does not raise and the provider would
\* answer api_data: the data returned, whether the provider was called, and table
\* charts afterwards (INSERT ... ON CONFLICT (title, week) DO UPDATE SET data)
fetch_chart_data(key, table, api_data) ==
    IF \E r \in table : r.title = key.title /\ r.week = key.week
    THEN [data |-> CachedData(table, key), called |-> FALSE, table |-> table]
    ELSE [data |-> api_data,
          called |-> TRUE,
          table |-> {r \in table : ~(r.title = key.title /\ r.week = key.week)}
                    \cup {[title |-> key.title, week |-> key.week, data |-> api_data]}]

RECURSIVE FetchAll(_, _, _)
FetchAll(plan, n, table) ==
    IF n = 0 THEN table
    ELSE fetch_chart_data(plan[n], FetchAll(plan, n - 1, table),
                          Upstream(plan[n].title, plan[n].week)).table

\* process_predictions lines 614-656: the contest row, the four charts, the predictions
ProcessFetch ==
    /\ pc = "fetch"
    /\ \E k \in 0..4 :
       LET plan == FetchPlan(contest_id)
           table == FetchAll(plan, k, charts)
       IN /\ charts' = table
          /\ IF k = 4
             THEN /\ NoFault
                  /\ fetched' = [hot100_current |-> CachedData(table, plan[1]),
                                 hot100_previous |-> CachedData(table, plan[2]),
                                 billboard200_current |-> CachedData(table, plan[3]),
                                 billboard200_previous |-> CachedData(table, plan[4])]
                  /\ todo' = Unprocessed(contest_id)
                  /\ pc' = "loop"
                  /\ obs' = obs
                  /\ UNCHANGED <<success, retval>>
             ELSE \* fetch k+1 raises: except branch, rollback, return False
                  /\ Fault
                  /\ obs' = [obs EXCEPT !.failure = plan[k + 1].title]
                  /\ ProcessReturn(FALSE)
                  /\ UNCHANGED <<fetched, todo>>
    /\ UNCHANGED <<today, weekly_contests, predictions, prediction_results, users,
                   entry, contest_id, new_contest_id, tx, credits, quiet, ev, webvars>>


\* the row INSERTed into prediction_results for prediction p with result
ResultRow(p, result) ==
    [prediction_id |-> p,
     actual_position |-> GetField(result, "actual_position"),
     actual_change |-> GetField(result, "actual_change"),
     is_correct |-> result.is_correct,
     points_earned |-> result.points]

\* update_user_stats(user_id, points, is_correct): the UPDATE, committed on its own connection
update_user_stats(table, user_id, points, is_correct) ==
    [table EXCEPT ![user_id] =
        [total_points |-> @.total_points + points,
         weekly_points |-> @.weekly_points + points,
         predictions_made |-> @.predictions_made + 1,
         correct_predictions |-> @.correct_predictions + (IF is_correct THEN 1 ELSE 0)]]

\* process_predictions lines 662-668: the charts for the prediction's chart_type
ChartsFor(prediction) ==
    IF prediction.chart_id = "hot-100"
    THEN <<fetched.hot100_current, fetched.hot100_previous>>
    ELSE <<fetched.billboard200_current, fetched.billboard200_previous>>

\* conn.commit() of line 714: the result rows and the processed flags together
CommitRows(rows) ==
    /\ prediction_results' = prediction_results \o rows
    /\ predictions' =
          [p \in PredictionIds |->
              IF \E i \in 1..Len(rows) : rows[i].prediction_id = p
              THEN [predictions[p] EXCEPT !.processed = TRUE]
              ELSE predictions[p]]

\* a mistaken rollback that keeps what the transaction wrote (autocommit)
RollbackKeepsRows ==
    /\ CommitRows(tx)
    /\ tx' = <<>>

\* conn.rollback() of the except branch (line 736)
Rollback ==
    /\ UNCHANGED <<predictions, prediction_results>>
    /\ tx' = <<>>

\* one iteration of the loop of process_predictions (lines 659-712) for row p
ProcessOne(p) ==
    LET prediction == predictions[p]
        cs == ChartsFor(prediction)
        evaluated == EvaluatePrediction(prediction, cs[1], cs[2])
        result == evaluated[1]
        after == IF todo = {p} THEN "commit" ELSE "loop"
    IN IF evaluated = <<>>
       THEN \* unknown prediction type: continue
            /\ todo' = todo \ {p}
            /\ pc' = after
            /\ NoFault
            /\ UNCHANGED <<predictions, prediction_results, users, tx, credits, obs,
                           success, retval>>
       ELSE \/ \* INSERT, UPDATE processed, update_user_stats all succeed
               /\ tx' = Append(tx, ResultRow(p, result))
               /\ users' = update_user_stats(users, prediction.user_id,
                                             result.points, result.is_correct)
               /\ credits' = [credits EXCEPT ![p] = @ + 1]
               /\ todo' = todo \ {p}
               /\ pc' = after
               /\ NoFault
               /\ UNCHANGED <<predictions, prediction_results, obs, success, retval>>
            \/ \* the UPDATE of update_user_stats raises: it returns False, ignored
               /\ tx' = Append(tx, ResultRow(p, result))
               /\ todo' = todo \ {p}
               /\ pc' = after
               /\ Fault
               /\ obs' = [obs EXCEPT !.failure = "stats"]
               /\ UNCHANGED <<predictions, prediction_results, users, credits,
                              success, retval>>
            \/ \* the INSERT raises: except branch, conn.rollback(), return False
               /\ Rollback
               /\ Fault
               /\ obs' = [obs EXCEPT !.failure = "insert"]
               /\ ProcessReturn(FALSE)
               /\ UNCHANGED <<users, credits, todo>>

\* the rows come in id order (the heap order of a table that is only appended to)
ProcessLoop ==
    /\ pc = "loop"
    /\ \E p \in todo : (\A q \in todo : p <= q) /\ ProcessOne(p)
    /\ UNCHANGED <<today, weekly_contests, charts, entry, contest_id, new_contest_id,
                   fetched, quiet, ev, webvars>>

\* process_predictions with no prediction to loop over goes straight to the commit
ProcessSkipLoop ==
    /\ pc = "loop"
    /\ todo = {}
    /\ pc' = "commit"
    /\ UNCHANGED <<today, dbvars, entry, contest_id, success, new_contest_id, retval,
                   fetched, todo, tx, faults, histvars, ev, webvars>>

ProcessCommit ==
    /\ pc = "commit"
    /\ \/ /\ CommitRows(tx)
          /\ tx' = <<>>
          /\ pc' = "stats"
          /\ NoFault
          /\ UNCHANGED <<success, retval, obs>>
       \/ \* commit raises: rollback, return False
          /\ Rollback
          /\ Fault
          /\ obs' = [obs EXCEPT !.failure = "commit"]
          /\ ProcessReturn(FALSE)
    /\ UNCHANGED <<today, weekly_contests, users, charts, entry, contest_id,
                   new_contest_id, fetched, todo, credits, quiet, ev, webvars>>


RECURSIVE SumPoints(_)
SumPoints(rows) ==
    IF rows = <<>> THEN 0 ELSE Head(rows).points_earned + SumPoints(Tail(rows))

\* FROM predictions p JOIN prediction_results pr ON p.id = pr.prediction_id
\* WHERE p.contest_id = %s
ContestResults(c) ==
    SelectSeq(prediction_results,
              LAMBDA r : r.prediction_id \in PredictionIds
                         /\ predictions[r.prediction_id].contest_id = c)

\* an UPDATE of the contest row that also writes status = 'open'
generate_contest_stats_reopening(c) ==
    [weekly_contests EXCEPT ![c].status = "open"]

\* generate_contest_stats(contest_id): the three totals stored on the contest row
generate_contest_stats(c) ==
    LET rows == ContestResults(c)
    IN [weekly_contests EXCEPT
          ![c].total_predictions = Some(Len(rows)),
          ![c].correct_predictions = Some(Len(SelectSeq(rows, LAMBDA r : r.is_correct))),
          ![c].total_points_awarded = Some(SumPoints(rows))]

\* process_predictions line 718; a failure inside is logged and swallowed
ProcessStats ==
    /\ pc = "stats"
    /\ \/ weekly_contests' = generate_contest_stats(contest_id) /\ NoFault
       \/ weekly_contests' = weekly_contests /\ Fault
    /\ pc' = "reset"
    /\ UNCHANGED <<today, predictions, prediction_results, users, charts, entry,
                   contest_id, success, new_contest_id, retval, fetched, todo, tx,
                   histvars, ev, webvars>>

\* UPDATE users SET weekly_points = 0 WHERE weekly_points > 0
ResetWeeklyPoints(table) ==
    [u \in DOMAIN table |->
        IF table[u].weekly_points > 0
        THEN [table[u] EXCEPT !.weekly_points = 0] ELSE table[u]]

\* process_predictions lines 720-732
ProcessReset ==
    /\ pc = "reset"
    /\ \/ /\ users' = ResetWeeklyPoints(users)
          /\ NoFault
          /\ obs' = obs
          /\ ProcessReturn(TRUE)
       \/ \* the UPDATE or the commit raises: rollback, return False
          /\ users' = users
          /\ Fault
          /\ obs' = [obs EXCEPT !.failure = "reset"]
          /\ ProcessReturn(FALSE)
    /\ UNCHANGED <<today, weekly_contests, predictions, prediction_results, charts,
                   entry, contest_id, new_contest_id, fetched, todo, tx, credits,
                   quiet, ev, webvars>>

\* the dates without the step from a Tuesday to the Tuesday after it
NextContestDatesSameDay(day) ==
    LET weekday == day % DaysPerWeek
        days_until_tuesday == (Tuesday - weekday + DaysPerWeek) % DaysPerWeek
        next_tuesday == day + days_until_tuesday
    IN [start_date |-> day, end_date |-> next_tuesday - 1,
        chart_release_date |-> next_tuesday]

\* create_next_contest lines 178-189: (start_date, end_date, chart_release_date)
NextContestDates(day) ==
    LET weekday == day % DaysPerWeek
        d == (Tuesday - weekday + DaysPerWeek) % DaysPerWeek
        days_until_tuesday == IF d = 0 THEN DaysPerWeek ELSE d
        next_tuesday == day + days_until_tuesday
    IN [start_date |-> day, end_date |-> next_tuesday - 1,
        chart_release_date |-> next_tuesday]

\* the row create_next_contest INSERTs
NewContestRow(day) ==
    LET dates == NextContestDates(day)
    IN [status |-> "open", start_date |-> dates.start_date, end_date |-> dates.end_date,
        chart_release_date |-> dates.chart_release_date,
        total_predictions |-> Null, correct_predictions |-> Null,
        total_points_awarded |-> Null]

create_next_contest ==
    /\ pc = "create"
    /\ \/ /\ Len(weekly_contests) < MaxContests
          /\ weekly_contests' = Append(weekly_contests, NewContestRow(today))
          /\ new_contest_id' = Len(weekly_contests) + 1
          /\ retval' = "True"
          /\ quiet' = TRUE
          /\ NoFault
       \/ \* the INSERT raises: logged, rolled back, return None
          /\ weekly_contests' = weekly_contests
          /\ new_contest_id' = None
          /\ retval' = "False"
          /\ quiet' = FALSE
          /\ Fault
    /\ pc' = "done"
    /\ UNCHANGED <<today, predictions, prediction_results, users, charts, entry,
                   contest_id, success, fetched, todo, tx, credits, obs, ev, webvars>>

\* initialise_contest.py run by an operator: create_contest_for_current_cycle().
\* Its connections hand out plain tuple cursors, so result["id"] (line 95) and
\* cursor.fetchone()["id"] (line 154) raise TypeError: the UPDATE of
\* close_existing_contest and the INSERT are rolled back, nothing is committed.
\* It returns the id of an open contest it found, or None.
create_contest_for_current_cycle ==
    /\ pc = "idle"
    /\ pc' = "done"
    /\ entry' = "initialise"
    /\ obs' = Snapshot
    /\ quiet' = FALSE
    /\ \/ \* an active contest exists: return its id
          \E c \in MostRecentOpen :
             /\ new_contest_id' = c
             /\ retval' = "True"
             /\ NoFault
       \/ \* none found (or the SELECT raised): UPDATE and INSERT rolled back, None
          /\ IF OpenContests = {} THEN NoFault ELSE Fault
          /\ new_contest_id' = None
          /\ retval' = "False"
    /\ UNCHANGED <<today, dbvars, contest_id, success, fetched, todo, tx, credits,
                   ev, webvars>>

\* the entry function has returned; the process ends
Return ==
    /\ pc = "done"
    /\ pc' = "idle"
    /\ entry' = "none"
    /\ contest_id' = None
    /\ success' = "unset"
    /\ new_contest_id' = None
    /\ retval' = "unset"
    /\ fetched' = <<>>
    /\ todo' = {}
    /\ tx' = <<>>
    /\ obs' = NoObs
    /\ quiet' = (quiet /\ entry = "cycle" /\ retval = "True")
    /\ UNCHANGED <<today, dbvars, faults, credits, ev, webvars>>

\* the job is killed between two statements: its open transaction is lost
Crash ==
    /\ pc \in {"close", "fetch", "loop", "commit", "stats", "reset", "create"}
    /\ Fault
    /\ pc' = "idle"
    /\ entry' = "none"
    /\ contest_id' = None
    /\ success' = "unset"
    /\ new_contest_id' = None
    /\ retval' = "unset"
    /\ fetched' = <<>>
    /\ todo' = {}
    /\ tx' = <<>>
    /\ obs' = NoObs
    /\ quiet' = FALSE
    /\ UNCHANGED <<today, dbvars, credits, ev, webvars>>

Next ==
    \/ Submit
    \/ StartCycle
    \/ StartProcess
    \/ close_active_contest
    \/ ProcessFetch
    \/ ProcessLoop
    \/ ProcessSkipLoop
    \/ ProcessCommit
    \/ ProcessStats
    \/ ProcessReset
    \/ create_next_contest
    \/ create_contest_for_current_cycle
    \/ Return
    \/ Crash

Spec == Init /\ [][Next]_vars


\* run_weekly_processor is about to return True
CycleSucceeded == pc = "done" /\ entry = "cycle" /\ retval = "True"

\* the scheduler keeps starting the weekly job and a started job keeps running;
\* nothing makes an operator re-run process_predictions by hand
CycleStep ==
    \/ StartCycle
    \/ close_active_contest
    \/ ProcessFetch
    \/ ProcessLoop
    \/ ProcessSkipLoop
    \/ ProcessCommit
    \/ ProcessStats
    \/ ProcessReset
    \/ create_next_contest
    \/ Return

\* Every successful cycle INSERTs one more contest row.  A closed contest without
\* predictions is never read again (every query is by status = 'open' or by the
\* id just closed), so once the table holds MaxContests rows the INSERT takes the
\* slot of the newest row when that row is closed and has no prediction.  This
\* keeps an endless sequence of weekly cycles within MaxContests rows.
create_next_contest_reuse ==
    /\ pc = "create"
    /\ Len(weekly_contests) = MaxContests
    /\ weekly_contests[MaxContests].status = "closed"
    /\ \A p \in PredictionIds : predictions[p].contest_id # MaxContests
    /\ weekly_contests' = [weekly_contests EXCEPT ![MaxContests] = NewContestRow(today)]
    /\ new_contest_id' = MaxContests
    /\ retval' = "True"
    /\ quiet' = TRUE
    /\ NoFault
    /\ pc' = "done"
    /\ UNCHANGED <<today, predictions, prediction_results, users, charts, entry,
                   contest_id, success, fetched, todo, tx, credits, obs, ev, webvars>>

FairNext == Next \/ create_next_contest_reuse

\* the weekly job is started again and again, a started job runs on, and runs
\* keep completing successfully (the failures are the MaxFaults counted ones)
FairSpec ==
    /\ Init
    /\ [][FairNext]_vars
    /\ WF_vars(CycleStep \/ create_next_contest_reuse)
    /\ []<>CycleSucceeded


\* the scheduler starts the weekly job again and again, however often an operator
\* runs something in between, and a started job runs on
\* (one user submitting one kind of prediction; the operator's re-runs stay)
HealSubmit ==
    \E c \in ContestIds :
        SubmitPrediction(1,
            [contest_id |-> c, chart_type |-> "hot-100", prediction_type |-> "entry",
             target_name |-> "Gamma", artist |-> "Z", position |-> 5])

HealNext ==
    \/ HealSubmit
    \/ StartProcess
    \/ CycleStep
    \/ Crash

HealSpec == Init /\ [][HealNext]_vars /\ WF_vars(CycleStep) /\ SF_vars(StartCycle)

\* ------------------------------------ submissions racing with the batch job
RaceBegin ==
    /\ Len(predictions) + Len(inflight) < MaxPreds
    /\ \E r \in Requests, c \in ContestIds :
          SubmitCheck(r[1],
              [contest_id |-> c, chart_type |-> r[2].chart_type,
               prediction_type |-> r[2].prediction_type, target_name |-> r[2].target_name,
               artist |-> r[2].artist, position |-> r[2].position])

RaceNext ==
    \/ RaceBegin
    \/ SubmitStore
    \/ StartCycle
    \/ StartProcess
    \/ close_active_contest
    \/ ProcessFetch
    \/ ProcessLoop
    \/ ProcessSkipLoop
    \/ ProcessCommit
    \/ ProcessStats
    \/ ProcessReset
    \/ create_next_contest
    \/ create_contest_for_current_cycle
    \/ Return
    \/ Crash

RaceSpec == Init /\ [][RaceNext]_vars

\* ------------------------------------------ concurrent submissions on their own
\* The tables after two weekly runs without predictions: contest 1 closed with its
\* totals stored, contest 2 open.
ClosedEmptyContest ==
    [NewContestRow(Tuesday) EXCEPT !.status = "closed",
                                   !.total_predictions = Some(0),
                                   !.correct_predictions = Some(0),
                                   !.total_points_awarded = Some(0)]

SubmitInit ==
    /\ today = Tuesday
    /\ weekly_contests = <<ClosedEmptyContest, NewContestRow(Tuesday)>>
    /\ predictions = <<>>
    /\ prediction_results = <<>>
    /\ users = [u \in Users |-> ZeroStats]
    /\ charts = {}
    /\ pc = "idle"
    /\ entry = "none"
    /\ contest_id = None
    /\ success = "unset"
    /\ new_contest_id = None
    /\ retval = "unset"
    /\ fetched = <<>>
    /\ todo = {}
    /\ tx = <<>>
    /\ faults = 0
    /\ credits = <<>>
    /\ obs = NoObs
    /\ quiet = FALSE
    /\ inflight = <<>>
    /\ response = NoResponse
    /\ ev = <<>>

ValidBody ==
    [contest_id |-> 2, chart_type |-> "hot-100", prediction_type |-> "entry",
     target_name |-> "Gamma", artist |-> "Z", position |-> 5]

\* request bodies of user 1: two that pass, and one for each way of failing
SubmitBodies ==
    { ValidBody,
      [ValidBody EXCEPT !.chart_type = "hot-100/"],
      [ValidBody EXCEPT !.chart_type = "artist-100"],
      [ValidBody EXCEPT !.prediction_type = "peak"],
      [ValidBody EXCEPT !.contest_id = 1],
      [ValidBody EXCEPT !.contest_id = 3],
      [contest_id |-> 2, chart_type |-> "hot-100", prediction_type |-> "entry",
       target_name |-> "Gamma"] }

SubmitBegin == \E data \in SubmitBodies : SubmitCheck(1, data)
SubmitRefuse == \E data \in SubmitBodies : SubmitReject(1, data)

SubmitNext ==
    \/ SubmitBegin
    \/ SubmitRefuse
    \/ SubmitStore

SubmitSpec == SubmitInit /\ [][SubmitNext]_vars

\* ---- two run_weekly_processor processes at once
\* The process-local variables of the process that is not running are kept in ev;
\* Switch hands the processor to the other process, so both run the same steps.
Locals ==
    [pc |-> pc, entry |-> entry, contest_id |-> contest_id, success |-> success,
     new_contest_id |-> new_contest_id, retval |-> retval, fetched |-> fetched,
     todo |-> todo, tx |-> tx, obs |-> obs]

IdleLocals ==
    [pc |-> "idle", entry |-> "none", contest_id |-> None, success |-> "unset",
     new_contest_id |-> None, retval |-> "unset", fetched |-> <<>>, todo |-> {},
     tx |-> <<>>, obs |-> NoObs]

TwoPredictions ==
    {PredictionRow(1, [contest_id |-> 1, chart_type |-> "hot-100",
                       prediction_type |-> "entry", target_name |-> "Gamma",
                       artist |-> "Z", position |-> 5]),
     PredictionRow(2, [contest_id |-> 1, chart_type |-> "billboard-200",
                       prediction_type |-> "exit", target_name |-> "Beta",
                       artist |-> "Y", position |-> 0])}

\* contest 1 open with its predictions submitted, both processes about to start
TwoInit ==
    /\ today = Tuesday
    /\ weekly_contests = <<NewContestRow(Tuesday)>>
    /\ predictions \in UNION {[1..k -> TwoPredictions] : k \in 1..MaxPreds}
    /\ prediction_results = <<>>
    /\ users = [u \in Users |-> ZeroStats]
    /\ charts = {}
    /\ pc = "idle"
    /\ entry = "none"
    /\ contest_id = None
    /\ success = "unset"
    /\ new_contest_id = None
    /\ retval = "unset"
    /\ fetched = <<>>
    /\ todo = {}
    /\ tx = <<>>
    /\ faults = 0
    /\ credits = [p \in DOMAIN predictions |-> 0]
    /\ obs = NoObs
    /\ quiet = FALSE
    /\ inflight = <<>>
    /\ response = NoResponse
    /\ ev = IdleLocals

Switch ==
    /\ ev' = Locals
    /\ pc' = ev.pc
    /\ entry' = ev.entry
    /\ contest_id' = ev.contest_id
    /\ success' = ev.success
    /\ new_contest_id' = ev.new_contest_id
    /\ retval' = ev.retval
    /\ fetched' = ev.fetched
    /\ todo' = ev.todo
    /\ tx' = ev.tx
    /\ obs' = ev.obs
    /\ UNCHANGED <<today, dbvars, faults, credits, quiet, webvars>>

\* close_active_contest lines 137-142: get_current_active_contest() on its own
SelectActive ==
    /\ pc = "close"
    /\ \/ /\ OpenContests = {}
          /\ CloseReturn(None)
       \/ \E c \in MostRecentOpen :
             /\ contest_id' = c
             /\ pc' = "closing"
    /\ UNCHANGED <<today, dbvars, entry, success, new_contest_id, retval, fetched,
                   todo, tx, faults, histvars, ev, webvars>>

\* close_active_contest lines 144-160: UPDATE ... WHERE id = contest_id, commit
CloseUpdate ==
    /\ pc = "closing"
    /\ weekly_contests' = [weekly_contests EXCEPT ![contest_id].status = "closed"]
    /\ CloseReturn(contest_id)
    /\ UNCHANGED <<today, predictions, prediction_results, users, charts, entry,
                   success, new_contest_id, retval, fetched, todo, tx, faults,
                   histvars, ev, webvars>>

\* UPDATE predictions SET processed = TRUE WHERE id = p waits while the other
\* process holds the row in its open transaction
RowLocked(p) == \E i \in DOMAIN ev.tx : ev.tx[i].prediction_id = p

TwoLoop ==
    /\ \A p \in todo : (\A q \in todo : p <= q) => ~RowLocked(p)
    /\ ProcessLoop

TwoNext ==
    \/ Switch
    \/ StartCycle
    \/ SelectActive
    \/ CloseUpdate
    \/ ProcessFetch
    \/ TwoLoop
    \/ ProcessSkipLoop
    \/ ProcessCommit
    \/ ProcessStats
    \/ ProcessReset
    \/ create_next_contest

TwoSpec == TwoInit /\ [][TwoNext]_vars

\* ---- the weekly job over the days of a week, nothing submitted
\* datetime.now().date() moves on between two runs of the job
DayPasses ==
    /\ pc = "idle"
    /\ today < MaxDay
    /\ today' = today + 1
    /\ UNCHANGED <<dbvars, jobvars, faults, histvars, ev, webvars>>

DateNext ==
    \/ DayPasses
    \/ StartCycle
    \/ close_active_contest
    \/ ProcessFetch
    \/ ProcessSkipLoop
    \/ ProcessCommit
    \/ ProcessStats
    \/ ProcessReset
    \/ create_next_contest
    \/ Return

DateSpec == Init /\ [][DateNext]_vars

\* ---- one fetch_chart_data call at a time, the provider's answer varying between calls
FetchKeys == {[title |-> t, week |-> w] : t \in ChartIds, w \in {1, 8}}
FetchAnswers == {HotA, HotB, BbA}

\* a call that returns: from the cache, or from the provider and then cached
FetchCall ==
    /\ \E key \in FetchKeys, api_data \in FetchAnswers :
           LET r == fetch_chart_data(key, charts, api_data)
           IN /\ charts' = r.table
              /\ ev' = [key |-> key, api_data |-> api_data, data |-> r.data,
                        called |-> r.called, raised |-> FALSE]
    /\ UNCHANGED <<today, weekly_contests, predictions, prediction_results, users,
                   jobvars, faults, histvars, webvars>>

\* a call on a key not cached whose request to the provider fails (no API key,
\* requests.get or raise_for_status raising): rollback, the exception re-raised
FetchRaise ==
    /\ \E key \in FetchKeys :
           /\ ~\E r \in charts : r.title = key.title /\ r.week = key.week
           /\ ev' = [key |-> key, api_data |-> Null, data |-> Null,
                     called |-> TRUE, raised |-> TRUE]
    /\ UNCHANGED <<today, dbvars, jobvars, faults, histvars, webvars>>

FetchNext == FetchCall \/ FetchRaise

FetchSpec == Init /\ [][FetchNext]_vars

\* ------------------------------------------------------- evaluator on its own
\* One evaluation of one prediction against two snapshots drawn from small sets.
SeqsUpTo(S, n) == UNION {[1..k -> S] : k \in 0..n}

EvalKeys ==
    { <<"Song X", "Artist Y">>, <<"SONG X", "ARTIST Y">>,
      <<"Song Z", "Artist Y">>, <<"Song X", "Artist W">> }
EvalPositions == {1, 8, 10, 11, 50, 51}
EvalCurrentSongs == {Song(k[1], k[2], pos) : k \in EvalKeys, pos \in EvalPositions}
EvalPreviousSongs == {Song(k[1], k[2], 1) : k \in EvalKeys}
EvalPredictions ==
    { [prediction_type |-> "entry", song_name |-> n, artist |-> "Artist Y",
       predicted_position |-> Some(pp), predicted_change |-> Null] :
         n \in {"Song X", "SONG X"}, pp \in {1, 5} }

EvalInit ==
    /\ InitSystem
    /\ ev \in [prediction : EvalPredictions,
                current : {Chart(l) : l \in SeqsUpTo(EvalCurrentSongs, MaxCurrentSongs)},
                previous : {Chart(l) : l \in SeqsUpTo(EvalPreviousSongs, MaxPreviousSongs)},
                evaluated : {FALSE},
                result : {<<>>}]

Evaluate ==
    /\ ~ev.evaluated
    /\ ev' = [ev EXCEPT !.evaluated = TRUE,
                        !.result = EvaluatePrediction(ev.prediction, ev.current,
                                                      ev.previous)]
    /\ UNCHANGED <<today, dbvars, jobvars, faults, histvars, webvars>>

EvalSpec == EvalInit /\ [][Evaluate]_vars

\* position_change predictions: the song moves between two snapshots
ChangeKeys ==
    { <<"Song X", "Artist Y">>, <<"SONG X", "ARTIST Y">>, <<"Song Z", "Artist Y">> }
ChangePreviousSongs == {Song(k[1], k[2], pos) : k \in ChangeKeys, pos \in {15, 20}}
ChangeCurrentSongs == {Song(k[1], k[2], pos) : k \in ChangeKeys, pos \in {4, 9, 15, 20}}
ChangePredictions ==
    { [prediction_type |-> "position_change", song_name |-> "Song X",
       artist |-> "Artist Y", predicted_position |-> Null,
       predicted_change |-> Some(pc_)] : pc_ \in {-5, 0, 5, 10} }

EvalChangeInit ==
    /\ InitSystem
    /\ ev \in [prediction : ChangePredictions,
                current : {Chart(l) : l \in SeqsUpTo(ChangeCurrentSongs, MaxCurrentSongs)},
                previous : {Chart(l) : l \in SeqsUpTo(ChangePreviousSongs, MaxPreviousSongs)},
                evaluated : {FALSE},
                result : {<<>>}]

EvalChangeSpec == EvalChangeInit /\ [][Evaluate]_vars

\* exit predictions: the song leaves the ranking
ExitSongs == {Song(k[1], k[2], 1) : k \in EvalKeys}
ExitPredictions ==
    { [prediction_type |-> "exit", song_name |-> n, artist |-> "Artist Y",
       predicted_position |-> Null, predicted_change |-> Null] :
         n \in {"Song X", "SONG X"} }

EvalExitInit ==
    /\ InitSystem
    /\ ev \in [prediction : ExitPredictions,
                current : {Chart(l) : l \in SeqsUpTo(ExitSongs, MaxCurrentSongs)},
                previous : {Chart(l) : l \in SeqsUpTo(ExitSongs, MaxPreviousSongs)},
                evaluated : {FALSE},
                result : {<<>>}]

EvalExitSpec == EvalExitInit /\ [][Evaluate]_vars

\* the three evaluators over all their inputs together
EvalAllInit == EvalInit \/ EvalChangeInit \/ EvalExitInit

EvalAllSpec == EvalAllInit /\ [][Evaluate]_vars

\* ---- favourites.py: add_favourite and remove_favourite, requests overlapping
\* (song_name, artist, chart_id) of a request
FavKeys == {<<"Alpha", "X", "hot-100">>, <<"Beta", "Y", "hot-100">>}

NoFavResponse == [status |-> 0, favourite_id |-> None]

\* ev.user_favourites: table user_favourites; ev.next_id: its SERIAL id;
\* ev.inflight: add_favourite calls past their SELECT, before their INSERT
FavInit ==
    /\ InitSystem
    /\ ev = [user_favourites |-> {}, next_id |-> 1, inflight |-> <<>>,
             op |-> "none", response |-> NoFavResponse]

\* SELECT id FROM user_favourites WHERE user_id, song_name, artist, chart_id
FavExisting(table, user_id, key) ==
    {r \in table : r.user_id = user_id /\ r.key = key}

\* add_favourite up to the SELECT: 200 with the id found, or on to the INSERT
AddCheck ==
    /\ \E user_id \in Users, key \in FavKeys :
          LET existing == FavExisting(ev.user_favourites, user_id, key)
          IN IF existing # {}
             THEN \E r \in existing :
                     ev' = [ev EXCEPT !.op = "add",
                                      !.response = [status |-> 200, favourite_id |-> r.id]]
             ELSE /\ Len(ev.inflight) < MaxInFlight
                  /\ ev' = [ev EXCEPT !.op = "check",
                                      !.response = NoFavResponse,
                                      !.inflight = Append(@, [user_id |-> user_id,
                                                              key |-> key])]
    /\ UNCHANGED <<today, dbvars, jobvars, faults, histvars, webvars>>

\* add_favourite from the INSERT ... RETURNING id to the commit: 201
AddStore ==
    /\ ev.next_id <= MaxFavouriteId
    /\ \E i \in DOMAIN ev.inflight :
          ev' = [ev EXCEPT
                   !.op = "add",
                   !.user_favourites = @ \cup {[id |-> ev.next_id,
                                                user_id |-> ev.inflight[i].user_id,
                                                key |-> ev.inflight[i].key]},
                   !.next_id = @ + 1,
                   !.inflight = RemoveAt(@, i),
                   !.response = [status |-> 201, favourite_id |-> ev.next_id]]
    /\ UNCHANGED <<today, dbvars, jobvars, faults, histvars, webvars>>

\* add_favourite whose INSERT raises: the except branch, 500
AddFail ==
    /\ \E i \in DOMAIN ev.inflight :
          ev' = [ev EXCEPT !.op = "add",
                           !.inflight = RemoveAt(@, i),
                           !.response = [status |-> 500, favourite_id |-> None]]
    /\ UNCHANGED <<today, dbvars, jobvars, faults, histvars, webvars>>

\* remove_favourite(favourite_id): 404 unless the row is the user's, else DELETE, 200
remove_favourite ==
    /\ \E user_id \in Users, favourite_id \in 1..MaxFavouriteId :
          IF \E r \in ev.user_favourites : r.id = favourite_id /\ r.user_id = user_id
          THEN ev' = [ev EXCEPT
                        !.op = "remove",
                        !.user_favourites = {r \in @ : ~(r.id = favourite_id
                                                         /\ r.user_id = user_id)},
                        !.response = [status |-> 200, favourite_id |-> favourite_id]]
          ELSE ev' = [ev EXCEPT !.op = "remove",
                                !.response = [status |-> 404,
                                              favourite_id |-> favourite_id]]
    /\ UNCHANGED <<today, dbvars, jobvars, faults, histvars, webvars>>

FavNext == AddCheck \/ AddStore \/ AddFail \/ remove_favourite

FavSpec == FavInit /\ [][FavNext]_vars

\* ---- auth.reset_password(), several requests at once
\* ev.tokens: table password_reset_tokens, keyed by token; ev.password_hash: column
\* users.password_hash; ev.now: datetime.utcnow(), in hours; ev.reqs: the requests;
\* ev.ok: per token, the number of 200 answers given so far
IssuedTokens == {"t1", "t2"}

ResetTokens == IssuedTokens \cup {"unknown", ""}

NewPasswords == {"hunter2!", "s3cretpw", "short", ""}

PasswordLength(p) ==
    CASE p = "hunter2!" -> 8
      [] p = "s3cretpw" -> 8
      [] p = "short" -> 5
      [] OTHER -> 0

\* bcrypt.generate_password_hash(new_password)
Hash(p) == <<"bcrypt", p>>

IdleRequest ==
    [pc |-> "idle", token |-> "", password |-> "", token_data |-> <<>>,
     status |-> 0, overlapped |-> FALSE]

\* both tokens were issued to the first user by forgot_password at hour 0
ResetInit ==
    /\ InitSystem
    /\ ev = [tokens |-> [t \in IssuedTokens |->
                            [user_id |-> 1, expiry |-> 0 + RESET_TOKEN_EXPIRY,
                             used |-> FALSE]],
             password_hash |-> [u \in Users |-> Hash("original")],
             now |-> 0,
             reqs |-> [r \in 1..MaxRequests |-> IdleRequest],
             ok |-> [t \in IssuedTokens |-> 0]]

\* the clock moves on
Tick ==
    /\ ev.now < MaxClock
    /\ ev' = [ev EXCEPT !.now = @ + 1]
    /\ UNCHANGED <<today, dbvars, jobvars, faults, histvars, webvars>>

\* SELECT ... FOR UPDATE waits while another transaction holds the token's row
\* or the joined users row
RowsLockedNever(tokens, reqs, r, token) == FALSE

RowsLocked(tokens, reqs, r, token) ==
    /\ token \in DOMAIN tokens
    /\ \E q \in DOMAIN reqs :
          /\ q # r
          /\ reqs[q].pc = "locked"
          /\ \/ reqs[q].token = token
             \/ tokens[reqs[q].token].user_id = tokens[token].user_id

\* the next request arrives (requests are numbered in order of arrival): 400 on a
\* missing token or password or a short password, else a connection is opened and
\* the SELECT is sent
ResetStart ==
    /\ \E r \in 1..MaxRequests, token \in ResetTokens, password \in NewPasswords :
          /\ ev.reqs[r].pc = "idle"
          /\ \A q \in 1..(r - 1) : ev.reqs[q].pc # "idle"
          /\ IF token = "" \/ password = "" \/ PasswordLength(password) < MinPasswordLength
             THEN ev' = [ev EXCEPT !.reqs[r] =
                            [IdleRequest EXCEPT !.pc = "done", !.token = token,
                                                !.password = password, !.status = 400]]
             ELSE LET others == {q \in 1..MaxRequests \ {r} :
                                    /\ ev.reqs[q].pc \in {"select", "locked"}
                                    /\ ev.reqs[q].token = token}
                  IN ev' = [ev EXCEPT !.reqs =
                              [q \in 1..MaxRequests |->
                                 IF q = r
                                 THEN [IdleRequest EXCEPT !.pc = "select",
                                                          !.token = token,
                                                          !.password = password,
                                                          !.overlapped = (others # {})]
                                 ELSE IF q \in others
                                      THEN [ev.reqs[q] EXCEPT !.overlapped = TRUE]
                                      ELSE ev.reqs[q]]]
    /\ UNCHANGED <<today, dbvars, jobvars, faults, histvars, webvars>>

\* the SELECT returns: no row is 401, else the row read and its locks held
ResetSelect ==
    /\ \E r \in 1..MaxRequests :
          /\ ev.reqs[r].pc = "select"
          /\ ~RowsLocked(ev.tokens, ev.reqs, r, ev.reqs[r].token)
          /\ IF ev.reqs[r].token \notin DOMAIN ev.tokens
             THEN ev' = [ev EXCEPT !.reqs[r].pc = "done", !.reqs[r].status = 401]
             ELSE ev' = [ev EXCEPT !.reqs[r].pc = "locked",
                                   !.reqs[r].token_data = <<ev.tokens[ev.reqs[r].token]>>]
    /\ UNCHANGED <<today, dbvars, jobvars, faults, histvars, webvars>>

\* the checks on the row read, then both UPDATEs and the commit; the connection
\* is closed, which releases the locks, on every path
ResetFinish ==
    /\ \E r \in 1..MaxRequests :
          /\ ev.reqs[r].pc = "locked"
          /\ LET token_data == ev.reqs[r].token_data[1]
             IN IF token_data.expiry < ev.now \/ token_data.used
                THEN ev' = [ev EXCEPT !.reqs[r].pc = "done", !.reqs[r].status = 401,
                                      !.reqs[r].token_data = <<>>]
                ELSE ev' = [ev EXCEPT
                              !.password_hash[token_data.user_id] =
                                  Hash(ev.reqs[r].password),
                              !.tokens[ev.reqs[r].token].used = TRUE,
                              !.ok[ev.reqs[r].token] = @ + 1,
                              !.reqs[r].pc = "done",
                              !.reqs[r].token_data = <<>>,
                              !.reqs[r].status = 200]
    /\ UNCHANGED <<today, dbvars, jobvars, faults, histvars, webvars>>

\* the connection or a statement raises: rollback, 500
ResetFail ==
    /\ \E r \in 1..MaxRequests :
          /\ ev.reqs[r].pc \in {"select", "locked"}
          /\ ev' = [ev EXCEPT !.reqs[r].pc = "done", !.reqs[r].status = 500,
                                !.reqs[r].token_data = <<>>]
    /\ UNCHANGED <<today, dbvars, jobvars, faults, histvars, webvars>>

ResetNext == Tick \/ ResetStart \/ ResetSelect \/ ResetFinish \/ ResetFail

ResetSpec == ResetInit /\ [][ResetNext]_vars

\* ---- db.get_db_connection(retries, delay)
\* ev.driver: what psycopg2.connect is.  "psycopg2": the library, whose connections
\* (cursor_factory=RealDictCursor) return rows that are dicts keyed by column name.
\* "mock": the MagicMock the tests patch in, whose rows accept any index.
ConnInit ==
    /\ InitSystem
    /\ ev \in [driver : {"psycopg2", "mock"}, retries : 0..MaxRetries, attempt : {0},
                at : {"for"}, conn : {None}, returned : {None}, log : {<<>>}]

\* for attempt in range(retries):  ... else fall out of the loop
ConnFor ==
    /\ ev.at = "for"
    /\ ev' = [ev EXCEPT !.at = IF ev.attempt < ev.retries THEN "connect" ELSE "raise"]
    /\ UNCHANGED <<today, dbvars, jobvars, faults, histvars, webvars>>

\* conn = psycopg2.connect(DATABASE_URL, cursor_factory=RealDictCursor)
ConnConnect ==
    /\ ev.at = "connect"
    /\ \/ ev' = [ev EXCEPT !.at = "ensure", !.conn = ev.attempt + 1,
                            !.log = Append(@, "connected")]
       \/ ev' = [ev EXCEPT !.at = "except", !.log = Append(@, "connect failed")]
    /\ UNCHANGED <<today, dbvars, jobvars, faults, histvars, webvars>>

\* ensure_tables_exist(conn); return conn.  exists = cur.fetchone()[0] indexes the
\* row by position: a KeyError on a RealDictCursor row, caught by the except branch
ensure_tables_exist ==
    /\ ev.at = "ensure"
    /\ IF ev.driver = "psycopg2"
       THEN ev' = [ev EXCEPT !.at = "except", !.log = Append(@, "tables failed")]
       ELSE ev' = [ev EXCEPT !.at = "returned", !.returned = ev.conn,
                            !.log = Append(@, "return")]
    /\ UNCHANGED <<today, dbvars, jobvars, faults, histvars, webvars>>

\* except Exception: log; if attempt < retries - 1: time.sleep(delay)
ConnExcept ==
    /\ ev.at = "except"
    /\ ev' = [ev EXCEPT !.at = "for", !.attempt = @ + 1,
                        !.log = IF ev.attempt < ev.retries - 1
                                THEN Append(@, "sleep") ELSE @]
    /\ UNCHANGED <<today, dbvars, jobvars, faults, histvars, webvars>>

\* raise RuntimeError("Database connection failed after multiple attempts")
ConnRaise ==
    /\ ev.at = "raise"
    /\ ev' = [ev EXCEPT !.at = "raised", !.log = Append(@, "RuntimeError")]
    /\ UNCHANGED <<today, dbvars, jobvars, faults, histvars, webvars>>

ConnNext == ConnFor \/ ConnConnect \/ ensure_tables_exist \/ ConnExcept \/ ConnRaise

ConnSpec == ConnInit /\ [][ConnNext]_vars

\* ---- evaluation of inputs against the same inputs in other letter case
\* the same text with the case of its letters changed
Recase(t) ==
    CASE t = "Alpha" -> "ALPHA"
      [] t = "ALPHA" -> "Alpha"
      [] t = "Beta" -> "BETA"
      [] t = "BETA" -> "Beta"
      [] t = "X" -> "x"
      [] t = "x" -> "X"
      [] t = "Y" -> "y"
      [] t = "y" -> "Y"

RecaseSong(song, parts) ==
    [song EXCEPT !.name = IF "snapshot_name" \in parts THEN Recase(@) ELSE @,
                 !.artist = IF "snapshot_artist" \in parts THEN Recase(@) ELSE @]

RecaseChart(chart, parts) ==
    Chart([i \in DOMAIN chart.data.songs |-> RecaseSong(chart.data.songs[i], parts)])

RecasePrediction(prediction, parts) ==
    [prediction EXCEPT
        !.song_name = IF "prediction_name" \in parts THEN Recase(@) ELSE @,
        !.artist = IF "prediction_artist" \in parts THEN Recase(@) ELSE @]

CaseParts == {"prediction_name", "prediction_artist", "snapshot_name", "snapshot_artist"}

CaseTitles == {<<"Alpha", "X">>, <<"ALPHA", "X">>, <<"Beta", "X">>, <<"Alpha", "Y">>}

\* a snapshot listing the titles from position first on
CaseChart(titles, first) ==
    Chart([i \in DOMAIN titles |-> Song(titles[i][1], titles[i][2], first + i - 1)])

CasePredictions ==
    { [prediction_type |-> "entry", song_name |-> t[1], artist |-> t[2],
       predicted_position |-> Some(5), predicted_change |-> Null] :
         t \in {<<"Alpha", "X">>, <<"Beta", "X">>, <<"Alpha", "y">>} }
    \cup
    { [prediction_type |-> "position_change", song_name |-> t[1], artist |-> t[2],
       predicted_position |-> Null, predicted_change |-> Some(5)] :
         t \in {<<"Alpha", "X">>, <<"Beta", "X">>, <<"Alpha", "y">>} }
    \cup
    { [prediction_type |-> "exit", song_name |-> t[1], artist |-> t[2],
       predicted_position |-> Null, predicted_change |-> Null] :
         t \in {<<"Alpha", "X">>, <<"Beta", "X">>, <<"Alpha", "y">>} }

CaseInit ==
    /\ InitSystem
    /\ ev \in [prediction : CasePredictions,
                current : {CaseChart(l, 8) : l \in SeqsUpTo(CaseTitles, MaxCurrentSongs)},
                previous : {CaseChart(l, 13) : l \in SeqsUpTo(CaseTitles, MaxPreviousSongs)},
                parts : SUBSET CaseParts,
                evaluated : {FALSE},
                result : {<<>>},
                result_recased : {<<>>}]

\* the evaluation of the inputs, and of the inputs with the chosen parts recased
EvaluateBoth ==
    /\ ~ev.evaluated
    /\ ev' = [ev EXCEPT
                !.evaluated = TRUE,
                !.result = EvaluatePrediction(ev.prediction, ev.current, ev.previous),
                !.result_recased =
                    EvaluatePrediction(RecasePrediction(ev.prediction, ev.parts),
                                       RecaseChart(ev.current, ev.parts),
                                       RecaseChart(ev.previous, ev.parts))]
    /\ UNCHANGED <<today, dbvars, jobvars, faults, histvars, webvars>>

CaseSpec == CaseInit /\ [][EvaluateBoth]_vars

\* ---- the top performers query of generate_contest_stats on its own
\* predictions JOIN prediction_results JOIN users of one contest, in insertion
\* order: one row per user 1..MaxTopUsers, then possibly a second row for one user
TopRowSets ==
    {[u \in 1..MaxTopUsers |-> [user_id |-> u, points_earned |-> f[u]]] \o extra :
        f \in [1..MaxTopUsers -> {5, 10}],
        extra \in {<<>>, <<[user_id |-> 1, points_earned |-> 5]>>,
                   <<[user_id |-> MaxTopUsers, points_earned |-> 10]>>}}

RECURSIVE Ascending(_)
Ascending(S) ==
    IF S = {} THEN <<>>
    ELSE LET m == CHOOSE x \in S : \A y \in S : x <= y
         IN <<m>> \o Ascending(S \ {m})

Reverse(s) == [i \in 1..Len(s) |-> s[Len(s) + 1 - i]]

\* GROUP BY u.id, u.username with SUM(pr.points_earned): one group per user in
\* rows, the groups in the order given
GroupByUser(rows, order) ==
    [i \in 1..Len(order) |->
        [id |-> order[i],
         points |-> SumPoints(SelectSeq(rows, LAMBDA r : r.user_id = order[i]))]]

\* ORDER BY points DESC: groups with equal points stay in the order they came in
RECURSIVE OrderByPointsDesc(_)
OrderByPointsDesc(groups) ==
    IF groups = <<>> THEN <<>>
    ELSE LET sorted == OrderByPointsDesc(SubSeq(groups, 1, Len(groups) - 1))
             g == groups[Len(groups)]
             k == Cardinality({i \in DOMAIN sorted : sorted[i].points >= g.points})
         IN SubSeq(sorted, 1, k) \o <<g>> \o SubSeq(sorted, k + 1, Len(sorted))

\* the query with its LIMIT 10, for one order in which the executor meets the groups
TopPerformers(rows, order) ==
    LET sorted == OrderByPointsDesc(GroupByUser(rows, order))
    IN SubSeq(sorted, 1, IF Len(sorted) < TopLimit THEN Len(sorted) ELSE TopLimit)

TopInit ==
    /\ InitSystem
    /\ ev \in [rows : TopRowSets, computed : {FALSE}, top_performers : {<<>>}]

\* The query names no order among groups with equal points, so the executor's one
\* decides: here the groups by ascending or by descending user id.
ComputeTop ==
    /\ ~ev.computed
    /\ LET ids == Ascending({ev.rows[i].user_id : i \in DOMAIN ev.rows})
       IN \E order \in {ids, Reverse(ids)} :
              ev' = [ev EXCEPT !.computed = TRUE,
                               !.top_performers = TopPerformers(ev.rows, order)]
    /\ UNCHANGED <<today, dbvars, jobvars, faults, histvars, webvars>>

TopSpec == TopInit /\ [][ComputeTop]_vars

\* ------------------------------------------------------------------ properties
IsProcessed(p) == p \in PredictionIds /\ predictions[p].processed
ContestOf(p) == predictions[p].contest_id
ProcessedSet == {p \in PredictionIds : predictions[p].processed}

\* the result rows written since the running job started
NewRows == SubSeq(prediction_results, Len(obs.results_before) + 1, Len(prediction_results))
RowsOfUser(rows, u) ==
    SelectSeq(rows, LAMBDA r : predictions[r.prediction_id].user_id = u)
CorrectRows(rows) == SelectSeq(rows, LAMBDA r : r.is_correct)

StatsUnchanged ==
    \A u \in Users :
        /\ users[u].total_points = obs.users_before[u].total_points
        /\ users[u].predictions_made = obs.users_before[u].predictions_made
        /\ users[u].correct_predictions = obs.users_before[u].correct_predictions

\* C1: in every reachable state at most one contest has status = open
C1_AtMostOneOpen == Cardinality(OpenContests) <= 1

\* C2: when run_weekly_processor has returned True, exactly one contest is open, it
\* is the one this run created, and every contest open before the run is closed
C2_CycleLeavesOnlyNewOpen ==
    CycleSucceeded =>
        /\ OpenContests = {new_contest_id}
        /\ \A c \in obs.open_before : weekly_contests[c].status = "closed"

\* C3: the points of a prediction are added to its user's totals at most once,
\* whatever runs failed, were interrupted or were re-run
C3_ScoredAtMostOnce == \A p \in PredictionIds : credits[p] <= 1

\* C4: a re-run of process_predictions on a contest whose predictions are all
\* processed, and a weekly cycle that follows a successful one with no submission
\* in between, add no result row and leave the user statistics as they were
RerunOfProcessedContest ==
    /\ entry = "process"
    /\ \A p \in PredictionIds : ContestOf(p) = contest_id => p \in obs.processed_before
SecondQuietCycle == entry = "cycle" /\ obs.second
C4_RerunChangesNothing ==
    (RerunOfProcessedContest \/ SecondQuietCycle) =>
        /\ prediction_results = obs.results_before
        /\ tx = <<>>
        /\ StatsUnchanged

\* C5: once process_predictions has returned False to run_weekly_processor, the run
\* is over, reports failure, and has created no contest
C5_NoCreateAfterFailedEvaluation ==
    (entry = "cycle" /\ success = "False") =>
        /\ pc = "done"
        /\ retval = "False"
        /\ new_contest_id = None
        /\ Len(weekly_contests) = obs.len_before
C5_Witness ==
    /\ entry = "cycle" /\ success = "False" /\ pc = "done"
    /\ obs.failure = "insert"
    /\ weekly_contests[contest_id].status = "closed"

\* C6: every unprocessed prediction of a closed contest left behind by a failed or
\* interrupted run is eventually processed by the weekly job
C6_ClosedContestRetried ==
    \A p \in 1..MaxPreds :
        (/\ pc = "idle"
         /\ p \in PredictionIds
         /\ ~predictions[p].processed
         /\ weekly_contests[ContestOf(p)].status = "closed")
        ~> IsProcessed(p)

\* C7: when the fetch failed for one chart id only, the predictions of the contest
\* on the other chart id have been evaluated: a result row and processed = TRUE
C7_OtherChartStillEvaluated ==
    (pc = "done" /\ obs.failure \in ChartIds) =>
        \A p \in PredictionIds :
            (ContestOf(p) = contest_id /\ predictions[p].chart_id # obs.failure) =>
                /\ predictions[p].processed
                /\ Len(ResultsOf(p)) = 1

\* C8: after a run in which an INSERT into prediction_results failed, no prediction
\* is processed and no result row exists that was not there before the run
C8_AllOrNothing ==
    (pc = "done" /\ obs.failure = "insert") =>
        /\ prediction_results = obs.results_before
        /\ ProcessedSet = obs.processed_before
C8_Witness ==
    /\ pc = "done" /\ obs.failure = "insert"
    /\ \E p, q \in PredictionIds :
          /\ p < q
          /\ ContestOf(p) = contest_id /\ ContestOf(q) = contest_id
          /\ p \notin obs.processed_before
          /\ credits[p] >= 1

\* C9: after a batch that reported success, each user's total_points,
\* predictions_made and correct_predictions have grown by the sum of the points, the
\* number and the number correct of that user's predictions evaluated in the batch
C9_StatsGrowByBatchSums ==
    (success = "True" /\ pc \in {"create", "done"}) =>
        \A u \in Users :
            LET rows == RowsOfUser(NewRows, u) IN
            /\ users[u].total_points - obs.users_before[u].total_points = SumPoints(rows)
            /\ users[u].predictions_made - obs.users_before[u].predictions_made = Len(rows)
            /\ users[u].correct_predictions - obs.users_before[u].correct_predictions
                  = Len(CorrectRows(rows))


\* a snapshot holds the prediction's song: some entry equals it in name and in
\* artist, letter case ignored
Present(chart, prediction) ==
    \E i \in 1..Len(chart.data.songs) :
        /\ Lower(chart.data.songs[i].name) = Lower(prediction.song_name)
        /\ Lower(chart.data.songs[i].artist) = Lower(prediction.artist)

\* C10: an entry prediction is correct exactly when its song is absent from the
\* previous snapshot and present in the current one; then actual_position is where
\* the song stands and the points are 15 up to position 10, 10 up to 50, 5 beyond;
\* otherwise the points are 0 and actual_position is NULL
C10_EntryScoring ==
    (ev # <<>> /\ ev.evaluated /\ ev.prediction.prediction_type = "entry") =>
        LET r == ev.result[1]
            entered == ~Present(ev.previous, ev.prediction)
                       /\ Present(ev.current, ev.prediction)
        IN /\ r.is_correct = entered
           /\ entered =>
                /\ r.actual_position # Null
                /\ \E i \in 1..Len(ev.current.data.songs) :
                      /\ ev.current.data.songs[i].position = r.actual_position[1]
                      /\ Lower(ev.current.data.songs[i].name) = Lower(ev.prediction.song_name)
                      /\ Lower(ev.current.data.songs[i].artist) = Lower(ev.prediction.artist)
                /\ r.actual_position[1] <= 10 => r.points = 15
                /\ (r.actual_position[1] >= 11 /\ r.actual_position[1] <= 50) => r.points = 10
                /\ r.actual_position[1] >= 51 => r.points = 5
           /\ ~entered => (r.points = 0 /\ r.actual_position = Null)
C10_Witness ==
    /\ ev # <<>> /\ ev.evaluated
    /\ ev.result[1].is_correct
    /\ ev.result[1].actual_position = Some(11)
    /\ ev.result[1].points = 10
    /\ ev.prediction.song_name = "SONG X"
    /\ Len(ev.current.data.songs) = 2

\* the positions at which a snapshot lists the prediction's song
PositionsIn(chart, prediction) ==
    {chart.data.songs[i].position : i \in
        {j \in 1..Len(chart.data.songs) :
            /\ Lower(chart.data.songs[j].name) = Lower(prediction.song_name)
            /\ Lower(chart.data.songs[j].artist) = Lower(prediction.artist)}}

\* an evaluated entry prediction (predicted_position = 5) for a song absent from
\* the previous snapshot and listed at position 8 in the current one
EntersAt8 ==
    /\ ev # <<>> /\ ev.evaluated
    /\ ev.prediction.prediction_type = "entry"
    /\ ev.prediction.predicted_position = Some(5)
    /\ PositionsIn(ev.previous, ev.prediction) = {}
    /\ PositionsIn(ev.current, ev.prediction) = {8}

\* C11 as stated: such a prediction is correct, earns 10 points and has
\* actual_position = 8
C11_EntryAt8Earns10 ==
    EntersAt8 =>
        /\ ev.result[1].is_correct
        /\ ev.result[1].points = 10
        /\ ev.result[1].actual_position = Some(8)

\* C11: an entry prediction (predicted_position = 5) for a song absent from the
\* previous snapshot and at position 8 in the current one is correct, earns 15
\* points (position 8 is within the top 10) and has actual_position = 8
C11_EntryAt8Earns15 ==
    EntersAt8 =>
        /\ ev.result[1].is_correct
        /\ ev.result[1].points = 15
        /\ ev.result[1].actual_position = Some(8)
C11_Witness ==
    /\ EntersAt8
    /\ Len(ev.current.data.songs) = 2
    /\ ev.current.data.songs[1].position = 50
    /\ ev.result[1].points = 15

\* C12: for a position_change prediction whose song is in both snapshots,
\* actual_change = previous position - current position, the points are 10, 5, 2, 0
\* for d = 0, 1..5, 6..10, above 10 where d = |predicted_change - actual_change|,
\* and is_correct = (points > 0); with the song missing from either snapshot the
\* result is incorrect, 0 points, actual_change NULL
C12_PositionChangeScoring ==
    (ev # <<>> /\ ev.evaluated /\ ev.prediction.prediction_type = "position_change") =>
        LET r == ev.result[1]
            before == PositionsIn(ev.previous, ev.prediction)
            after == PositionsIn(ev.current, ev.prediction)
        IN IF before # {} /\ after # {}
           THEN /\ r.actual_change # Null
                /\ \E b \in before, a \in after : r.actual_change[1] = b - a
                /\ LET diff == ev.prediction.predicted_change[1] - r.actual_change[1]
                       d == IF diff < 0 THEN 0 - diff ELSE diff
                   IN /\ d = 0 => r.points = 10
                      /\ (1 <= d /\ d <= 5) => r.points = 5
                      /\ (6 <= d /\ d <= 10) => r.points = 2
                      /\ d > 10 => r.points = 0
                /\ r.is_correct = (r.points > 0)
           ELSE ~r.is_correct /\ r.points = 0 /\ r.actual_change = Null
C12_Witness ==
    /\ ev # <<>> /\ ev.evaluated
    /\ ev.prediction.prediction_type = "position_change"
    /\ ev.prediction.predicted_change = Some(10)
    /\ PositionsIn(ev.previous, ev.prediction) = {20}
    /\ PositionsIn(ev.current, ev.prediction) = {15}
    /\ ev.result[1].actual_change = Some(5)
    /\ ev.result[1].points = 5
    /\ ev.result[1].is_correct

\* C13: an exit prediction is correct exactly when its song is in the previous
\* snapshot and not in the current one; it earns 10 points when correct and 0
\* otherwise; a song that was not in the previous snapshot is incorrect, 0 points
C13_ExitScoring ==
    (ev # <<>> /\ ev.evaluated /\ ev.prediction.prediction_type = "exit") =>
        LET r == ev.result[1]
            exited == Present(ev.previous, ev.prediction)
                      /\ ~Present(ev.current, ev.prediction)
        IN /\ r.is_correct = exited
           /\ r.points = IF exited THEN 10 ELSE 0
           /\ ~Present(ev.previous, ev.prediction) => (~r.is_correct /\ r.points = 0)
C13_Witness ==
    /\ ev # <<>> /\ ev.evaluated
    /\ ev.prediction.prediction_type = "exit"
    /\ ev.prediction.song_name = "SONG X"
    /\ Len(ev.previous.data.songs) = 1
    /\ ev.previous.data.songs[1].name = "Song X"
    /\ Len(ev.current.data.songs) = 2
    /\ ev.result[1].is_correct
    /\ ev.result[1].points = 10

\* C14: a create_next_contest step taken while some contest is open inserts no
\* row and returns None
C14_CreateFailsWhileOpen ==
    [][(pc = "create" /\ OpenContests # {} /\ pc' = "done") =>
          /\ weekly_contests' = weekly_contests
          /\ new_contest_id' = None]_vars

\* a prediction is processed exactly when it has exactly one result row
ProcessedIffOneResult ==
    \A p \in PredictionIds : predictions[p].processed <=> Len(ResultsOf(p)) = 1

\* processed stays TRUE, and the result rows there are stay as they are: the table
\* only grows at its end
ResultsKept ==
    /\ \A p \in PredictionIds :
          predictions[p].processed => (p \in PredictionIds' /\ predictions'[p].processed)
    /\ Len(prediction_results') >= Len(prediction_results)
    /\ SubSeq(prediction_results', 1, Len(prediction_results)) = prediction_results

\* C15: processed = TRUE if and only if exactly one result row exists; processed
\* never goes back to FALSE; a result row is never modified nor duplicated
\* (the tables start empty, so the first conjunct holds initially)
C15_ProcessedIffResult == [][ProcessedIffOneResult' /\ ResultsKept]_vars
C15_Witness ==
    /\ entry = "process" /\ pc = "done" /\ retval = "True"
    /\ \E p \in obs.processed_before :
          /\ ContestOf(p) = contest_id
          /\ Len(ResultsOf(p)) = 1
          /\ credits[p] = 1

\* C16: a closed contest stays closed and no contest row disappears, whatever the
\* batch job or the initialisation script does
C16_ClosedStaysClosed ==
    [][\A c \in ContestIds :
          /\ c \in ContestIds'
          /\ weekly_contests[c].status = "closed" => weekly_contests'[c].status = "closed"
          /\ weekly_contests'[c].status \in {"open", "closed"}]_vars
C16_Witness ==
    /\ entry = "initialise" /\ pc = "done" /\ retval = "True"
    /\ \E c \in ContestIds :
          /\ weekly_contests[c].status = "closed"
          /\ weekly_contests[c].total_predictions # Null

\* C17: when run_weekly_processor returns True, weekly_points is 0 for every user
C17_WeeklyPointsZeroAfterCycle ==
    CycleSucceeded => \A u \in Users : users[u].weekly_points = 0

\* C18: every prediction row is committed while its contest has status = open
C18_StoredOnlyWhileOpen ==
    [][\A p \in PredictionIds' \ PredictionIds :
          weekly_contests[predictions'[p].contest_id].status = "open"]_vars

\* C19: no (user, contest) pair ever has more than 10 predictions stored
C19_CapNeverExceeded ==
    \A u \in Users, c \in ContestIds : PredictionCount(u, c) <= 10

\* what the claim calls an invalid submission, at the moment it is made
InvalidSubmission(user_id, data) ==
    \/ data.prediction_type \notin {"entry", "exit", "position_change"}
    \/ RStrip(data.chart_type) \notin {"hot-100", "billboard-200"}
    \/ data.contest_id \notin ContestIds
    \/ weekly_contests[data.contest_id].status # "open"
    \/ PredictionCount(user_id, data.contest_id) >= 10

\* every stored prediction has a valid type and a supported chart id
StoredAreValid ==
    \A p \in PredictionIds :
        /\ predictions[p].prediction_type \in {"entry", "exit", "position_change"}
        /\ predictions[p].chart_id \in {"hot-100", "billboard-200"}

\* an invalid submission gets a 4xx reply from the checks, and a step that replies
\* 4xx stores nothing
RejectedStoresNothing ==
    /\ \A data \in SubmitBodies :
          ("prediction_type" \in DOMAIN data /\ "position" \in DOMAIN data
             /\ InvalidSubmission(1, data))
          => SubmitChecks(1, data).status \in {400, 404}
    /\ (response' # response /\ response'.status \in {400, 404})
          => predictions' = predictions

\* C20: a submission with an invalid type, an unsupported chart id, a missing or
\* closed contest, or a user at the cap is rejected at once and stores nothing;
\* every stored prediction has a valid type and a supported chart id
\* (the table starts empty, so the first conjunct holds initially)
C20_InvalidRejected == [][StoredAreValid' /\ RejectedStoresNothing]_vars
C20_Witness ==
    /\ response = Reply(400, "Invalid prediction type")
    /\ Len(predictions) = 3
    /\ Len(inflight) = 1

\* C21: from a state with no open contest (and room in the table for one more
\* row) the weekly job creates a contest although it had none to close: eventually
\* exactly one contest is open
C21_ZeroOpenHeals ==
    (pc = "idle" /\ OpenContests = {} /\ Len(weekly_contests) < MaxContests)
        ~> (Cardinality(OpenContests) = 1)
C21_Witness ==
    /\ CycleSucceeded
    /\ obs.open_before = {}
    /\ obs.len_before = 1
    /\ contest_id = None
    /\ faults = 1
    /\ OpenContests = {new_contest_id}

\* C22: a call of fetch_chart_data for a key already cached returns the cached data
\* without calling the provider, no call changes or removes a cached entry, the
\* table holds one entry per key, and a call whose request to the provider fails
\* leaves the table as it was
C22_CacheStable ==
    [][/\ \A r \in charts :
            /\ r \in charts'
            /\ (ev'.key = [title |-> r.title, week |-> r.week]
                   => ~ev'.called /\ ~ev'.raised /\ ev'.data = r.data)
       /\ \A r1, r2 \in charts' :
            (r1.title = r2.title /\ r1.week = r2.week) => r1 = r2
       /\ (ev'.raised => charts' = charts)]_vars
C22_Witness ==
    /\ ev # <<>>
    /\ ~ev.called
    /\ ev.api_data # ev.data
    /\ [title |-> ev.key.title, week |-> ev.key.week, data |-> ev.data] \in charts
    /\ \E r \in charts : r.title = ev.key.title /\ r.week # ev.key.week

\* C23: while a batch is looping over its predictions, a write to a user's
\* statistics happens only once no prediction is left to evaluate, it is the first
\* write of the batch to that user, and it adds the points of all the user's
\* predictions evaluated in the batch
C23_OneStatsWriteAfterEvaluation ==
    [][pc = "loop" =>
          \A u \in Users :
              users'[u] # users[u] =>
                  /\ todo' = {}
                  /\ users[u] = obs.users_before[u]
                  /\ users'[u].total_points - users[u].total_points
                        = SumPoints(RowsOfUser(tx', u))]_vars

\* C24: when a batch on a contest has reported success, the totals stored on the
\* contest row are the number of the contest's result rows, the number of them that
\* are correct, and the sum of their points
C24_TotalsEqualAggregates ==
    (success = "True" /\ pc \in {"create", "done"} /\ contest_id # None) =>
        LET rows == ContestResults(contest_id)
            contest == weekly_contests[contest_id]
        IN /\ contest.total_predictions = Some(Len(rows))
           /\ contest.correct_predictions = Some(Len(CorrectRows(rows)))
           /\ contest.total_points_awarded = Some(SumPoints(rows))

\* the place of user u's first row in rows
FirstRowOf(rows, u) == CHOOSE i \in DOMAIN rows :
    rows[i].user_id = u /\ \A j \in 1..(i - 1) : rows[j].user_id # u

\* C25: the top performers are at most 10 users, each once and with the sum of the
\* user's points, in non-increasing order of the sum, no user left out has a larger
\* sum, and users with equal sums stand in the order in which their first rows
\* were inserted
C25_TopPerformers ==
    ev.computed =>
        LET top == ev.top_performers
            sum(u) == SumPoints(SelectSeq(ev.rows, LAMBDA r : r.user_id = u))
            all == {ev.rows[i].user_id : i \in DOMAIN ev.rows}
            listed == {top[i].id : i \in DOMAIN top}
        IN /\ Len(top) <= TopLimit
           /\ \A i \in DOMAIN top : top[i].id \in all /\ top[i].points = sum(top[i].id)
           /\ \A i, j \in DOMAIN top : top[i].id = top[j].id => i = j
           /\ \A i, j \in DOMAIN top : i < j => top[i].points >= top[j].points
           /\ \A u \in all \ listed : \A i \in DOMAIN top : sum(u) <= top[i].points
           /\ \A i, j \in DOMAIN top :
                  (i < j /\ top[i].points = top[j].points)
                      => FirstRowOf(ev.rows, top[i].id) < FirstRowOf(ev.rows, top[j].id)

\* C26: every contest row create_next_contest inserts has start_date = today,
\* chart_release_date = the first Tuesday after today (1 to 7 days ahead, 7 exactly
\* when today is a Tuesday) and end_date = chart_release_date - 1, hence
\* start_date <= end_date < chart_release_date
C26_NextContestDates ==
    [][Len(weekly_contests') > Len(weekly_contests) =>
          LET row == weekly_contests'[Len(weekly_contests')]
              ahead == row.chart_release_date - today
          IN /\ row.start_date = today
             /\ row.chart_release_date % DaysPerWeek = Tuesday
             /\ ahead \in 1..DaysPerWeek
             /\ (ahead = DaysPerWeek) <=> (today % DaysPerWeek = Tuesday)
             /\ row.end_date = row.chart_release_date - 1
             /\ row.start_date <= row.end_date
             /\ row.end_date < row.chart_release_date]_vars
C26_Witness ==
    /\ Len(weekly_contests) = 2
    /\ weekly_contests[1].start_date % DaysPerWeek = Tuesday
    /\ weekly_contests[1].chart_release_date = weekly_contests[1].start_date + DaysPerWeek
    /\ weekly_contests[2].start_date % DaysPerWeek = 0
    /\ weekly_contests[2].start_date = weekly_contests[2].end_date

\* two texts that are equal or differ in the case of their letters only
SameUpToCase(a, b) == a = b \/ Recase(a) = b

\* the snapshot without the entries that differ from the prediction's song in name
\* or in artist by more than letter case
OnlySameSong(chart, prediction) ==
    Chart(SelectSeq(chart.data.songs,
                    LAMBDA e : /\ SameUpToCase(e.name, prediction.song_name)
                               /\ SameUpToCase(e.artist, prediction.artist)))

\* C27: the evaluation result is the same when the letter case of the name or the
\* artist is changed in the prediction or in the snapshots, and it is the result
\* the evaluation gives on the snapshots without every entry that differs from the
\* prediction's song in name or artist by more than letter case
C27_CaseInsensitiveExactMatch ==
    ev.evaluated =>
        /\ ev.result_recased = ev.result
        /\ ev.result = EvaluatePrediction(ev.prediction,
                                          OnlySameSong(ev.current, ev.prediction),
                                          OnlySameSong(ev.previous, ev.prediction))
\* a position_change prediction matched in both snapshots against entries written
\* in another case, next to an entry of the same name by another artist
C27_Witness ==
    /\ ev.evaluated
    /\ ev.prediction.prediction_type = "position_change"
    /\ ev.prediction.song_name = "Alpha"
    /\ ev.prediction.artist = "X"
    /\ ev.parts = {"snapshot_artist"}
    /\ ev.current = CaseChart(<<<<"Alpha", "Y">>, <<"ALPHA", "X">>>>, 8)
    /\ ev.previous = CaseChart(<<<<"ALPHA", "X">>>>, 13)
    /\ ev.result[1].is_correct

\* the places of the log holding event e
LogPlaces(e) == {i \in DOMAIN ev.log : ev.log[i] = e}

\* C28: get_db_connection connects at most retries times; once a connect has
\* succeeded it connects no more and what it returns is that connection; every
\* sleep stands between a failed attempt and the next connect; RuntimeError is
\* raised only after retries failed connects with retries - 1 sleeps among them
C28_RetryContract ==
    LET connected == LogPlaces("connected")
        failed == LogPlaces("connect failed")
        sleeps == LogPlaces("sleep")
    IN /\ Cardinality(connected \cup failed) <= ev.retries
       /\ \A i \in connected : \A j \in connected \cup failed : j <= i
       /\ (ev.at = "returned") => (connected # {} /\ ev.returned = ev.conn)
       /\ \A i \in sleeps :
             /\ i - 1 \in failed \cup LogPlaces("tables failed")
             /\ (i < Len(ev.log)) => (i + 1 \in connected \cup failed)
       /\ (ev.at = "raised") =>
             /\ connected = {}
             /\ Cardinality(failed) = ev.retries
             /\ Cardinality(sleeps) = (IF ev.retries = 0 THEN 0 ELSE ev.retries - 1)

C30_InitialiseContest ==
    [][(pc = "idle" /\ entry' = "initialise" /\ faults' = faults) =>
          IF OpenContests # {}
          THEN /\ new_contest_id' \in OpenContests
               /\ weekly_contests' = weekly_contests
          ELSE /\ weekly_contests' = Append(weekly_contests, NewContestRow(Tuesday))
               /\ new_contest_id' = Len(weekly_contests) + 1]_vars

\* C31: whenever no batch job is running, each user's total_points is the sum of
\* points_earned over the result rows of the user's predictions, predictions_made
\* is the number of those rows and correct_predictions the number of them that are
\* correct
C31_StatsMatchResults ==
    (pc = "idle") =>
        \A u \in Users :
            LET rows == RowsOfUser(prediction_results, u) IN
            /\ users[u].total_points = SumPoints(rows)
            /\ users[u].predictions_made = Len(rows)
            /\ users[u].correct_predictions = Len(CorrectRows(rows))

\* C32: a weekly run whose close step failed while a contest was open (it started
\* with an open contest and closed none) ends reporting failure, with no contest
\* row added and the open contests as they were
C32_FailedCloseReportsFailure ==
    (pc = "done" /\ entry = "cycle" /\ contest_id = None /\ obs.open_before # {}) =>
        /\ retval = "False"
        /\ Len(weekly_contests) = obs.len_before
        /\ OpenContests = obs.open_before

\* C33: with two weekly runs interleaved and no storage failure, no prediction
\* has two result rows, no prediction's points are credited twice, and once both
\* runs have ended at most one contest is open
C33_ConcurrentRunsSafe ==
    (faults = 0) =>
        /\ \A p \in PredictionIds :
              Cardinality({i \in DOMAIN prediction_results :
                              prediction_results[i].prediction_id = p}) <= 1
        /\ \A p \in PredictionIds : credits[p] <= 1
        /\ (pc = "done" /\ ev.pc = "done") => Cardinality(OpenContests) <= 1

\* C34: whenever the weekly job turns a contest from open to closed, today is
\* later than the contest's end_date
C34_ClosedOnlyAfterEnd ==
    [][\A c \in ContestIds :
          (weekly_contests[c].status = "open" /\ weekly_contests'[c].status = "closed")
              => today > weekly_contests[c].end_date]_vars

\* C35: the result of an evaluated entry prediction is the result the evaluation
\* gives for the same song and snapshots with any other predicted_position, or
\* with none
C35_PredictedPositionIgnored ==
    (ev.evaluated /\ ev.prediction.prediction_type = "entry") =>
        \A pp \in {Null} \cup {Some(n) : n \in EvalPositions} :
            EvaluatePrediction([ev.prediction EXCEPT !.predicted_position = pp],
                               ev.current, ev.previous) = ev.result
\* an entry prediction found correct at a position other than the predicted one
C35_Witness ==
    /\ ev.evaluated
    /\ ev.prediction.prediction_type = "entry"
    /\ ev.prediction.predicted_position = Some(1)
    /\ ev.result[1].is_correct
    /\ ev.result[1].actual_position = Some(51)
    /\ ev.result[1].points = OtherEntryPoints

\* C36: the result row written for an evaluated prediction of any of the three
\* types has points_earned in {0, 2, 5, 10, 15} and is_correct exactly when
\* points_earned > 0
C36_PointsAndCorrectness ==
    ev.evaluated =>
        LET row == ResultRow(1, ev.result[1])
        IN /\ row.points_earned \in {0, 2, 5, 10, 15}
           /\ row.is_correct <=> (row.points_earned > 0)
\* a position_change prediction six to ten places off: 2 points, and correct
C36_Witness ==
    /\ ev.evaluated
    /\ ev.prediction.prediction_type = "position_change"
    /\ ev.result[1].points = 2
    /\ ev.result[1].is_correct

\* C37: a reset_password call answers 200 only for a token that is in the table,
\* unused and not expired, that has given no 200 before, and the call marks it
\* used and stores the hash of its password; every other call, and every step in
\* which no call finishes, leaves the passwords and the tokens as they were; no
\* token ever gives two 200 answers, overlapping calls included
Finishes(r) == ev'.reqs[r] # ev.reqs[r] /\ ev'.reqs[r].pc = "done"

C37_TokenUsedOnce ==
    [][/\ \A r \in 1..MaxRequests :
             Finishes(r) =>
                LET t == ev'.reqs[r].token
                IN IF ev'.reqs[r].status = 200
                   THEN /\ t \in DOMAIN ev.tokens
                        /\ ~ev.tokens[t].used
                        /\ ~(ev.tokens[t].expiry < ev.now)
                        /\ ev.ok[t] = 0
                        /\ ev'.tokens = [ev.tokens EXCEPT ![t].used = TRUE]
                        /\ ev'.password_hash =
                              [ev.password_hash EXCEPT
                                 ![ev.tokens[t].user_id] = Hash(ev'.reqs[r].password)]
                   ELSE /\ ev'.password_hash = ev.password_hash
                        /\ ev'.tokens = ev.tokens
       /\ (\A r \in 1..MaxRequests : ~Finishes(r)) =>
             /\ ev'.password_hash = ev.password_hash
             /\ ev'.tokens = ev.tokens
       /\ \A t \in IssuedTokens : ev'.ok[t] <= 1]_vars

C37_Witness ==
    /\ \E r, q \in 1..MaxRequests :
          /\ ev.reqs[r].pc = "done" /\ ev.reqs[q].pc = "done"
          /\ ev.reqs[r].token = "t1" /\ ev.reqs[q].token = "t1"
          /\ ev.reqs[r].overlapped /\ ev.reqs[q].overlapped
          /\ ev.reqs[r].status = 200 /\ ev.reqs[q].status = 401
          /\ ev.password_hash[1] = Hash(ev.reqs[r].password)
          /\ ev.reqs[q].password # ev.reqs[r].password
    /\ ev.tokens["t1"].used
    /\ ev.ok["t1"] = 1

====
